---- MODULE Spec2Model ----
(***************************************************************************)
(* Railway reservation manager (src/main.py): the train registry (table    *)
(* trains), one seat table per train (seats_<train_number>) and the data   *)
(* access functions add_train, delete_train, book_ticket, cancel_tickets,  *)
(* get_seats_df, get_seat_availability, allocate_next_available_seat and   *)
(* ensure_seat_table, as executed one call at a time on the single cached  *)
(* SQLite connection.                                                      *)
(*                                                                         *)
(* Text values that the code inspects character by character (train        *)
(* numbers, passenger names, dates) are sequences of one-character         *)
(* strings; a nullable column holds Null (<<>>) or Some(v) (<<v>>).        *)
(*                                                                         *)
(* Streamlit runs the script of each browser session in a thread of its    *)
(* own, and all of them share the one cached connection: sessions holds    *)
(* the requests that run side by side, one step per call of the SQLite     *)
(* library on the connection. The store is the connection's view of the    *)
(* database, which all sessions see alike.                                 *)
(***************************************************************************)
EXTENDS Integers, Sequences, FiniteSets, TLC

VARIABLES
    trains,   \* table trains: train_number -> record of the other columns
    tables,   \* the seat tables that exist: table key -> (seat_number -> row)
    last,     \* the last call made on its own: its name and what it reported
    sessions, \* per browser session: where its request stands, or how it ended
    in_transaction,  \* the connection has an open transaction
    statement_cache  \* the texts of the statements the connection has prepared

vars == <<trains, tables, last, sessions, in_transaction, statement_cache>>

---------------------------------------------------------------------------
(* Program constant and model bounds *)

\* ensure_seat_table(train_number, total_seats=50)
TotalSeats == 50

\* Book is offered while fewer than MaxBooked seats are booked in the store
\* (the specifications of the calls made one at a time).
MaxBooked == 2

\* The sessions make MaxCalls requests between them (specification
\* SpecConcurrent).
MaxCalls == 2

---------------------------------------------------------------------------
(* Helpers *)

\* re.fullmatch(r"[A-Za-z0-9_]+", ...): the characters of the class
SafeChars ==
    {"A","B","C","D","E","F","G","H","I","J","K","L","M",
     "N","O","P","Q","R","S","T","U","V","W","X","Y","Z",
     "a","b","c","d","e","f","g","h","i","j","k","l","m",
     "n","o","p","q","r","s","t","u","v","w","x","y","z",
     "0","1","2","3","4","5","6","7","8","9","_"}

UpperChars ==
    <<"A","B","C","D","E","F","G","H","I","J","K","L","M",
      "N","O","P","Q","R","S","T","U","V","W","X","Y","Z">>

LowerChars ==
    <<"a","b","c","d","e","f","g","h","i","j","k","l","m",
      "n","o","p","q","r","s","t","u","v","w","x","y","z">>

\* SQLite compares table names without regard to ASCII case: each upper-case
\* letter stands for its lower-case one.
FoldMap ==
    [c \in {UpperChars[i] : i \in 1..Len(UpperChars)} |->
        LowerChars[CHOOSE i \in 1..Len(UpperChars) : UpperChars[i] = c]]

FoldChar(c) == IF c \in DOMAIN FoldMap THEN FoldMap[c] ELSE c

\* The table a name denotes in the store: seats_T1 and seats_t1 are one table.
TableKey(name) == [i \in 1..Len(name) |-> FoldChar(name[i])]

\* Mutant: any non-empty text passes
sanitize_train_number_NonEmpty(train_number) == Len(train_number) >= 1

\* sanitize_train_number: TRUE when it returns, FALSE when it raises ValueError
sanitize_train_number(train_number) ==
    /\ Len(train_number) >= 1
    /\ \A i \in 1..Len(train_number) : train_number[i] \in SafeChars

\* seat_table_name: f"seats_{tn}" (only called here on a sanitized number)
seat_table_name(train_number) == <<"s","e","a","t","s","_">> \o train_number

\* Mutant: the tuple of the first test is (0, 4, 5, 8)
categorize_seat_Window8(seat_number) ==
    LET mod == seat_number % 10
    IN  IF mod \in {0, 4, 5, 8} THEN "Window"
        ELSE IF mod \in {2, 3, 6, 7} THEN "Aisle"
        ELSE "Middle"

\* categorize_seat
categorize_seat(seat_number) ==
    LET mod == seat_number % 10
    IN  IF mod \in {0, 4, 5, 9} THEN "Window"
        ELSE IF mod \in {2, 3, 6, 7} THEN "Aisle"
        ELSE "Middle"

Null == <<>>
Some(v) == <<v>>

Digits == <<"0","1","2","3","4","5","6","7","8","9">>
Digit(n) == Digits[n + 1]

\* datetime.date.isoformat(): YYYY-MM-DD
isoformat(d) ==
    << Digit(d.y \div 1000), Digit((d.y \div 100) % 10),
       Digit((d.y \div 10) % 10), Digit(d.y % 10), "-",
       Digit(d.m \div 10), Digit(d.m % 10), "-",
       Digit(d.d \div 10), Digit(d.d % 10) >>

\* "Normalize date to ISO string": a date object is formatted, anything else
\* goes through str()
departure_date_str(departure_date) ==
    IF departure_date.isdate THEN isoformat(departure_date) ELSE departure_date.s

\* The characters str.strip() removes (str.isspace): 29 code points. The four
\* that have an escape are written with it; a code point that cannot be
\* written in a string stands as the one-character text named after it.
Whitespace ==
    {"\t", "\n", "U+000B", "\f", "\r",
     "U+001C", "U+001D", "U+001E", "U+001F", " ", "U+0085", "U+00A0",
     "U+1680", "U+2000", "U+2001", "U+2002", "U+2003", "U+2004", "U+2005",
     "U+2006", "U+2007", "U+2008", "U+2009", "U+200A", "U+2028", "U+2029",
     "U+202F", "U+205F", "U+3000"}

RECURSIVE lstrip(_)
lstrip(s) ==
    IF s = <<>> THEN s
    ELSE IF Head(s) \in Whitespace THEN lstrip(Tail(s)) ELSE s

RECURSIVE rstrip(_)
rstrip(s) ==
    IF s = <<>> THEN s
    ELSE IF s[Len(s)] \in Whitespace THEN rstrip(SubSeq(s, 1, Len(s) - 1)) ELSE s

\* str.strip()
strip(s) == rstrip(lstrip(s))

\* The rows ensure_seat_table inserts into an empty table
SeedRows(total_seats) ==
    [i \in 1..total_seats |->
        [seat_type |-> categorize_seat(i), booked |-> 0,
         passenger_name |-> Null, passenger_age |-> Null,
         passenger_gender |-> Null]]

\* Mutant: the rows are inserted whatever the count
ensure_seat_table_Reseed(t, train_number, total_seats) ==
    LET k  == TableKey(seat_table_name(train_number))
        t1 == IF k \in DOMAIN t THEN t ELSE (k :> <<>>) @@ t
    IN  [t1 EXCEPT ![k] = SeedRows(total_seats)]

\* ensure_seat_table: CREATE TABLE IF NOT EXISTS, then seed only when empty
ensure_seat_table(t, train_number, total_seats) ==
    LET k  == TableKey(seat_table_name(train_number))
        t1 == IF k \in DOMAIN t THEN t ELSE (k :> <<>>) @@ t
        count == Cardinality(DOMAIN t1[k])
    IN  IF count = 0 THEN [t1 EXCEPT ![k] = SeedRows(total_seats)] ELSE t1

\* Mutant: ORDER BY seat_number DESC
LowestUnbookedSeat_Desc(rows, seat_type) ==
    LET cands == {n \in DOMAIN rows :
                    rows[n].booked = 0 /\ rows[n].seat_type = seat_type}
    IN  IF cands = {} THEN 0
        ELSE CHOOSE n \in cands : \A m \in cands : n >= m

\* SELECT seat_number ... WHERE booked = 0 AND seat_type = ?
\*   ORDER BY seat_number ASC LIMIT 1;  0 stands for None
LowestUnbookedSeat(rows, seat_type) ==
    LET cands == {n \in DOMAIN rows :
                    rows[n].booked = 0 /\ rows[n].seat_type = seat_type}
    IN  IF cands = {} THEN 0
        ELSE CHOOSE n \in cands : \A m \in cands : n <= m

\* allocate_next_available_seat: the tables after ensure_seat_table and the
\* seat number returned
allocate_next_available_seat(t, train_number, seat_type) ==
    LET t1 == ensure_seat_table(t, train_number, TotalSeats)
    IN  [tables |-> t1,
         seat   |-> LowestUnbookedSeat(
                        t1[TableKey(seat_table_name(train_number))], seat_type)]

\* Mutant: UPDATE ... WHERE seat_number = ? AND booked = 0
BookRow_IfUnbooked(row, passenger_name, passenger_age, passenger_gender) ==
    IF row.booked = 1 THEN row
    ELSE [row EXCEPT !.booked = 1,
                     !.passenger_name = Some(strip(passenger_name)),
                     !.passenger_age = Some(passenger_age),
                     !.passenger_gender = Some(passenger_gender)]

\* UPDATE ... SET booked = 1, passenger_name = ?, passenger_age = ?,
\*   passenger_gender = ? WHERE seat_number = ?
BookRow(row, passenger_name, passenger_age, passenger_gender) ==
    [row EXCEPT !.booked = 1,
                !.passenger_name = Some(strip(passenger_name)),
                !.passenger_age = Some(passenger_age),
                !.passenger_gender = Some(passenger_gender)]

\* Mutant: passenger_name is not cleared
CancelRow_KeepName(row) ==
    [row EXCEPT !.booked = 0,
                !.passenger_age = Null,
                !.passenger_gender = Null]

\* UPDATE ... SET booked = 0, passenger_name = NULL, passenger_age = NULL,
\*   passenger_gender = NULL WHERE seat_number = ?
CancelRow(row) ==
    [row EXCEPT !.booked = 0,
                !.passenger_name = Null,
                !.passenger_age = Null,
                !.passenger_gender = Null]

\* Mutant: the seat table is not dropped
DropTable_Keep(t, k) == t

\* DROP TABLE IF EXISTS
DropTable(t, k) == [x \in DOMAIN t \ {k} |-> t[x]]

SeatTypeOrder == <<"Aisle", "Middle", "Window">>

\* Mutant: the CASE WHEN booked = ... test always succeeds
CountRows_All(rows, seat_type, booked) ==
    Cardinality({n \in DOMAIN rows : rows[n].seat_type = seat_type})

CountRows(rows, seat_type, booked) ==
    Cardinality({n \in DOMAIN rows :
                    rows[n].seat_type = seat_type /\ rows[n].booked = booked})

\* SELECT seat_type, SUM(booked = 0), SUM(booked = 1) ... GROUP BY seat_type
\*   ORDER BY seat_type
AvailabilityRows(rows) ==
    LET present == {rows[n].seat_type : n \in DOMAIN rows}
        types   == SelectSeq(SeatTypeOrder, LAMBDA ty : ty \in present)
    IN  [i \in 1..Len(types) |->
            <<types[i], CountRows(rows, types[i], 0), CountRows(rows, types[i], 1)>>]

\* get_seat_availability: the tables after ensure_seat_table, the grouped rows
\* and the total it returns
seat_availability(t, train_number) ==
    LET t1 == ensure_seat_table(t, train_number, TotalSeats)
        rows == t1[TableKey(seat_table_name(train_number))]
    IN  [tables |-> t1, rows |-> AvailabilityRows(rows),
         total |-> Cardinality(DOMAIN rows)]

\* Mutant: the lookup never finds a row
TrainExists_Never(tr, train_number) == FALSE

\* SELECT ... FROM trains WHERE train_number = ?  (.fetchone() is not None)
TrainExists(tr, train_number) == train_number \in DOMAIN tr

\* What a call reported
Report(op, status, seat, rows, total) ==
    [op |-> op, status |-> status, seat |-> seat, rows |-> rows, total |-> total]

\* The browser sessions
Callers == {"s1", "s2"}

\* A session with no request under way
Idle ==
    [op |-> "", pc |-> "idle", train_number |-> <<>>, train_name |-> <<>>,
     departure_date |-> <<>>, starting_destination |-> <<>>,
     ending_destination |-> <<>>, passenger_name |-> <<>>,
     passenger_age |-> 0, passenger_gender |-> "", seat_type |-> "",
     seat_number |-> 0, step |-> "start", row |-> 1, df |-> 0, rows |-> <<>>,
     total |-> 0, calls |-> 0, next |-> [pc |-> "", status |-> ""],
     status |-> ""]

---------------------------------------------------------------------------
(* Initial state: init_db has created an empty trains table *)

Init ==
    /\ trains = <<>>
    /\ tables = <<>>
    /\ last = Report("init_db", "ok", 0, <<>>, 0)
    /\ sessions = [c \in Callers |-> Idle]
    /\ in_transaction = FALSE
    /\ statement_cache = {}

---------------------------------------------------------------------------
(* Operations *)

add_train(train_number, train_name, departure_date, starting_destination, ending_destination) ==
    IF \/ train_number = <<>> \/ train_name = ""
       \/ starting_destination = "" \/ ending_destination = ""
    THEN /\ last' = Report("add_train", "ValidationError", 0, <<>>, 0)
         /\ UNCHANGED <<trains, tables>>
    ELSE IF ~sanitize_train_number(train_number)
    THEN /\ last' = Report("add_train", "ValidationError", 0, <<>>, 0)
         /\ UNCHANGED <<trains, tables>>
    ELSE IF TrainExists(trains, train_number)
    THEN /\ last' = Report("add_train", "DuplicateTrain", 0, <<>>, 0)
         /\ UNCHANGED <<trains, tables>>
    ELSE /\ trains' = (train_number :>
                        [train_name |-> train_name,
                         departure_date |-> departure_date_str(departure_date),
                         starting_destination |-> starting_destination,
                         ending_destination |-> ending_destination]) @@ trains
         /\ tables' = ensure_seat_table(tables, train_number, TotalSeats)
         /\ last' = Report("add_train", "ok", 0, <<>>, 0)

\* Mutant: the departure date is not verified
delete_train_NoDateCheck(train_number, departure_date) ==
    IF ~TrainExists(trains, train_number)
    THEN /\ last' = Report("delete_train", "NotFound", 0, <<>>, 0)
         /\ UNCHANGED <<trains, tables>>
    ELSE /\ tables' = DropTable(tables, TableKey(seat_table_name(train_number)))
         /\ trains' = [x \in DOMAIN trains \ {train_number} |-> trains[x]]
         /\ last' = Report("delete_train", "ok", 0, <<>>, 0)

delete_train(train_number, departure_date) ==
    IF ~TrainExists(trains, train_number)
    THEN /\ last' = Report("delete_train", "NotFound", 0, <<>>, 0)
         /\ UNCHANGED <<trains, tables>>
    ELSE IF trains[train_number].departure_date # departure_date_str(departure_date)
    THEN /\ last' = Report("delete_train", "DateMismatch", 0, <<>>, 0)
         /\ UNCHANGED <<trains, tables>>
    ELSE IF ~sanitize_train_number(train_number)
    THEN /\ last' = Report("delete_train", "ValidationError", 0, <<>>, 0)
         /\ UNCHANGED <<trains, tables>>
    ELSE /\ tables' = DropTable(tables, TableKey(seat_table_name(train_number)))
         /\ trains' = [x \in DOMAIN trains \ {train_number} |-> trains[x]]
         /\ last' = Report("delete_train", "ok", 0, <<>>, 0)

\* Mutant: the test "if not seat_number" is missing
book_ticket_NoSeatCheck(train_number, passenger_name, passenger_age, passenger_gender, seat_type) ==
    IF ~TrainExists(trains, train_number)
    THEN /\ last' = Report("book_ticket", "TrainNotFound", 0, <<>>, 0)
         /\ UNCHANGED <<trains, tables>>
    ELSE LET a == allocate_next_available_seat(tables, train_number, seat_type)
             k == TableKey(seat_table_name(train_number))
         IN  /\ tables' = IF a.seat \in DOMAIN a.tables[k]
                          THEN [a.tables EXCEPT ![k][a.seat] =
                                    BookRow(@, passenger_name, passenger_age,
                                            passenger_gender)]
                          ELSE a.tables
             /\ last' = Report("book_ticket", "ok", a.seat, <<>>, 0)
             /\ UNCHANGED trains

book_ticket(train_number, passenger_name, passenger_age, passenger_gender, seat_type) ==
    IF ~TrainExists(trains, train_number)
    THEN /\ last' = Report("book_ticket", "TrainNotFound", 0, <<>>, 0)
         /\ UNCHANGED <<trains, tables>>
    ELSE IF ~sanitize_train_number(train_number)
    THEN /\ last' = Report("book_ticket", "ValidationError", 0, <<>>, 0)
         /\ UNCHANGED <<trains, tables>>
    ELSE LET a == allocate_next_available_seat(tables, train_number, seat_type)
             k == TableKey(seat_table_name(train_number))
         IN  IF a.seat = 0
             THEN /\ last' = Report("book_ticket", "NoAvailableSeat", 0, <<>>, 0)
                  /\ tables' = a.tables
                  /\ UNCHANGED trains
             ELSE /\ last' = Report("book_ticket", "ok", a.seat, <<>>, 0)
                  /\ tables' = [a.tables EXCEPT ![k][a.seat] =
                                    BookRow(@, passenger_name, passenger_age,
                                            passenger_gender)]
                  /\ UNCHANGED trains

cancel_tickets(train_number, seat_number) ==
    LET k == TableKey(seat_table_name(train_number))
    IN  IF ~TrainExists(trains, train_number)
        THEN /\ last' = Report("cancel_tickets", "TrainNotFound", 0, <<>>, 0)
             /\ UNCHANGED <<trains, tables>>
        ELSE IF ~sanitize_train_number(train_number)
        THEN /\ last' = Report("cancel_tickets", "ValidationError", 0, <<>>, 0)
             /\ UNCHANGED <<trains, tables>>
        ELSE IF k \notin DOMAIN tables
        THEN \* SELECT on a table that does not exist: sqlite3.OperationalError
             /\ last' = Report("cancel_tickets", "OperationalError", 0, <<>>, 0)
             /\ UNCHANGED <<trains, tables>>
        ELSE IF seat_number \notin DOMAIN tables[k]
        THEN /\ last' = Report("cancel_tickets", "SeatNotFound", 0, <<>>, 0)
             /\ UNCHANGED <<trains, tables>>
        ELSE /\ tables' = [tables EXCEPT ![k][seat_number] = CancelRow(@)]
             /\ last' = Report("cancel_tickets", "ok", seat_number, <<>>, 0)
             /\ UNCHANGED trains

get_seats_df(train_number) ==
    IF ~sanitize_train_number(train_number)
    THEN /\ last' = Report("get_seats_df", "ValidationError", 0, <<>>, 0)
         /\ UNCHANGED <<trains, tables>>
    ELSE LET t1 == ensure_seat_table(tables, train_number, TotalSeats)
             rows == t1[TableKey(seat_table_name(train_number))]
         IN  /\ tables' = t1
             /\ last' = Report("get_seats_df", "ok", 0, <<>>, Cardinality(DOMAIN rows))
             /\ UNCHANGED trains

get_seat_availability(train_number) ==
    IF ~sanitize_train_number(train_number)
    THEN /\ last' = Report("get_seat_availability", "ValidationError", 0, <<>>, 0)
         /\ UNCHANGED <<trains, tables>>
    ELSE LET r == seat_availability(tables, train_number)
         IN  /\ tables' = r.tables
             /\ last' = Report("get_seat_availability", "ok", 0, r.rows, r.total)
             /\ UNCHANGED trains

\* ensure_seat_table called on its own
EnsureInventory(train_number) ==
    IF ~sanitize_train_number(train_number)
    THEN /\ last' = Report("ensure_seat_table", "ValidationError", 0, <<>>, 0)
         /\ UNCHANGED <<trains, tables>>
    ELSE /\ tables' = ensure_seat_table(tables, train_number, TotalSeats)
         /\ last' = Report("ensure_seat_table", "ok", 0, <<>>, 0)
         /\ UNCHANGED trains

\* allocate_next_available_seat called on its own
AllocateNextAvailable(train_number, seat_type) ==
    IF ~sanitize_train_number(train_number)
    THEN /\ last' = Report("allocate_next_available_seat", "ValidationError", 0, <<>>, 0)
         /\ UNCHANGED <<trains, tables>>
    ELSE LET a == allocate_next_available_seat(tables, train_number, seat_type)
         IN  /\ tables' = a.tables
             /\ last' = Report("allocate_next_available_seat", "ok", a.seat, <<>>, 0)
             /\ UNCHANGED trains

---------------------------------------------------------------------------
(* The requests of the browser sessions, as they run side by side. For a    *)
(* request main() runs init_db() and then the call of the page. Each        *)
(* session runs in a thread of its own and all of them use the one cached   *)
(* connection with no lock around a call: a data race. What happens then is *)
(* taken from the steps the sqlite3 module takes on the connection, each of *)
(* them one call of the SQLite library, between which the other sessions    *)
(* take theirs:                                                              *)
(*  - execute and executemany take the statement from the connection's      *)
(*    statement cache, and prepare it first when its text is not there. A   *)
(*    statement on a table that does not exist fails in the prepare, before *)
(*    anything else is done for it; a statement of the cache fails when it  *)
(*    is run;                                                                *)
(*  - for an INSERT, UPDATE or DELETE the module then reads the autocommit  *)
(*    flag and runs BEGIN when no transaction is open; commit() reads the   *)
(*    flag and runs COMMIT when one is open. Another session may open or    *)
(*    commit the transaction between the read and the BEGIN or COMMIT,      *)
(*    which then fails;                                                      *)
(*  - executemany runs its INSERT once per row, and the other sessions see  *)
(*    the rows that are in so far;                                           *)
(*  - execute runs a SELECT up to its first row; fetchone and fetchall run  *)
(*    it on, so the rows after the first are the ones the table holds when  *)
(*    they are fetched. Until then the SELECT is open, and DROP TABLE fails *)
(*    while a SELECT of another session is open;                             *)
(*  - when a step fails, the exception is made from the connection's error  *)
(*    code, read after the failure. A step of another session in between    *)
(*    replaces the code: the exception is of another class, or the code     *)
(*    reads "no error" and no exception is set at all. Then a failed        *)
(*    prepare and a failed COMMIT end in SystemError, and after a failed    *)
(*    BEGIN or a failed run of the statement execute returns as if the      *)
(*    statement had run, and a fetch on it finds no row.                     *)
(* The last call of a request on the connection is the reset or finalize    *)
(* of its last statement, made when the page's call has its result.         *)

\* The statements on a seat table: their text holds the name of the table
SeatStatements ==
    {"ensure_count", "ensure_insert", "select_seat", "update", "select_row",
     "clear", "select_rows", "select_summary", "select_total"}

\* The INSERT, UPDATE and DELETE statements, and the commit calls
DmlStatements == {"insert_train", "ensure_insert", "update", "delete_row", "clear"}
CommitCalls ==
    {"init_commit", "commit_train", "ensure_commit", "commit_update",
     "commit_delete", "commit_clear"}

\* The text of the statement a call is at; ensure_seat_table and
\* get_seat_availability count the rows with the same text
Sql(call) ==
    <<IF call.pc = "select_total" THEN "ensure_count" ELSE call.pc,
      seat_table_name(call.train_number)>>

\* The statement is not in the statement cache: execute prepares it
NeedsPrepare(call) ==
    call.pc \in SeatStatements /\ Sql(call) \notin statement_cache

\* The seat table of the call's train does not exist
TableMissing(call) ==
    TableKey(seat_table_name(call.train_number)) \notin DOMAIN tables

\* The call is about to run the statement pc that is not an INSERT, UPDATE
\* or DELETE: it has prepared it, or has it from the cache
Ready(call, pc) ==
    /\ call.pc = pc
    /\ \/ call.step = "step"
       \/ call.step = "start" /\ ~NeedsPrepare(call)

\* Another session has a request under way
OtherInFlight(c) ==
    \E d \in Callers \ {c} : sessions[d].pc \notin {"idle", "done"}

\* Another session has executed a SELECT and not yet fetched all its rows
OtherFetches(c) ==
    \E d \in Callers \ {c} : sessions[d].step = "fetch"

\* The classes of the exception a failed step raises: its own, or the one
\* made from the error code another session's step has left meanwhile
Raised(c, kind) ==
    IF OtherInFlight(c)
    THEN {kind, "OperationalError", "IntegrityError", "DatabaseError"}
    ELSE {kind}

\* How a session's request ends
Finished(session, status) ==
    [session EXCEPT !.pc = "return", !.step = "start", !.row = 1, !.next = Idle.next,
                    !.status = status]

\* The request ends in session c with the given status: its message, or the
\* exception that leaves it. Its thread still has the statement of its last
\* call to reset or to finalize
Return(c, call, status) ==
    sessions' = [sessions EXCEPT ![c] = Finished(call, status)]

\* The thread of session c has made its last call on the connection: the
\* request is over
Leave(c) ==
    /\ sessions[c].pc = "return"
    /\ UNCHANGED <<trains, tables, in_transaction, statement_cache, last>>
    /\ sessions' = [sessions EXCEPT ![c].pc = "done"]

\* The call goes on to the statement pc
Goto(c, call, pc) ==
    sessions' = [sessions EXCEPT ![c] =
                    [call EXCEPT !.pc = pc, !.step = "start", !.row = 1,
                                 !.next = Idle.next]]

\* What a call does next: it goes on to the statement pc, or ends
Continue(pc) == [pc |-> pc, status |-> ""]
End(status) == [pc |-> "done", status |-> status]

Do(c, call, next) ==
    IF next.pc = "done" THEN Return(c, call, next.status) ELSE Goto(c, call, next.pc)

\* A SELECT has been executed; when it found a row it stays open until the
\* call has fetched it
Select(c, call, found, next) ==
    IF found
    THEN sessions' = [sessions EXCEPT ![c] =
                         [call EXCEPT !.step = "fetch", !.next = next]]
    ELSE Do(c, call, next)

\* fetchone, and fetchall on the grouped rows: the row found by execute is
\* returned and the SELECT is finished
Fetch(c) ==
    LET call == sessions[c]
    IN  /\ call.step = "fetch"
        /\ call.pc \notin {"select_rows", "select_trains"}
        /\ UNCHANGED <<trains, tables, in_transaction, statement_cache, last>>
        /\ Do(c, call, call.next)

\* The step fails and its exception leaves the request
Fail(c, call, kind) ==
    \E status \in Raised(c, kind) : Return(c, call, status)

\* ensure_seat_table returns to its caller: add_train reports success,
\* allocate_next_available_seat, get_seats_df and get_seat_availability go on
\* to their SELECT
AfterEnsure(call) ==
    IF call.op = "add_train" THEN End("ok")
    ELSE IF call.op = "book_ticket" THEN Continue("select_seat")
    ELSE IF call.op = "get_seats_df" THEN Continue("select_rows")
    ELSE Continue("select_summary")

\* train_functions after init_db: the page passes the stripped fields to its
\* call when none of them is blank, and the call validates them before its
\* first statement
PageCall(call) ==
    CASE call.op = "add_train" ->
            IF \/ call.train_number = <<>> \/ call.train_name = <<>>
               \/ call.starting_destination = <<>> \/ call.ending_destination = <<>>
               \/ ~sanitize_train_number(call.train_number)
            THEN End("ValidationError")
            ELSE Continue("select_train")
      [] call.op = "book_ticket" ->
            IF call.train_number = <<>> \/ call.passenger_name = <<>>
            THEN End("ValidationError")
            ELSE Continue("select_train")
      [] call.op \in {"delete_train", "cancel_tickets"} ->
            IF call.train_number = <<>>
            THEN End("ValidationError")
            ELSE Continue("select_train")
      [] call.op = "search_train_by_train_number" ->
            \* the Search Train page shows nothing for a blank field
            IF call.train_number = <<>>
            THEN End("")
            ELSE Continue("select_train")
      [] call.op = "get_seats_df" ->
            IF call.train_number = <<>>
            THEN End("ValidationError")
            ELSE Continue("ensure_create")
      [] call.op = "search_trains_by_destinations" ->
            IF call.starting_destination = <<>> \/ call.ending_destination = <<>>
            THEN End("")
            ELSE Continue("select_trains")
      [] OTHER -> Continue("select_trains")

\* The INSERT, UPDATE, DELETE, DROP TABLE or commit has returned: the call
\* goes on to its next line
Proceed(c, call) ==
    CASE call.pc = "init_commit"   -> Do(c, call, PageCall(call))
      [] call.pc = "insert_train"  -> Goto(c, call, "commit_train")
      [] call.pc = "commit_train"  -> Goto(c, call, "ensure_create")
      [] call.pc = "ensure_insert" -> Goto(c, call, "ensure_commit")
      [] call.pc = "ensure_commit" -> Do(c, call, AfterEnsure(call))
      [] call.pc = "update"        -> Goto(c, call, "commit_update")
      [] call.pc = "commit_update" -> Return(c, call, "ok")
      [] call.pc = "drop_table"    -> Goto(c, call, "delete_row")
      [] call.pc = "delete_row"    -> Goto(c, call, "commit_delete")
      [] call.pc = "commit_delete" -> Return(c, call, "ok")
      [] call.pc = "clear"         -> Goto(c, call, "commit_clear")
      [] call.pc = "commit_clear"  -> Return(c, call, "ok")

\* The step fails: its exception leaves the request, or is lost and the call
\* goes on as if the statement had run
FailOrProceed(c, call, kind) ==
    \/ Fail(c, call, kind)
    \/ OtherInFlight(c) /\ Proceed(c, call)

\* execute and executemany prepare a statement on a seat table whose text
\* the statement cache does not hold. The prepare fails when the table does
\* not exist: sqlite3.OperationalError (no such table), or SystemError when
\* the error code is lost
PrepareStatement(c) ==
    LET call == sessions[c]
    IN  /\ call.step = "start"
        /\ NeedsPrepare(call)
        /\ UNCHANGED <<trains, tables, in_transaction, last>>
        /\ IF TableMissing(call)
           THEN /\ UNCHANGED statement_cache
                /\ \/ Fail(c, call, "OperationalError")
                   \/ OtherInFlight(c) /\ Return(c, call, "SystemError")
           ELSE /\ statement_cache' = statement_cache \cup {Sql(call)}
                /\ sessions' = [sessions EXCEPT ![c].step =
                                   IF call.pc \in DmlStatements
                                   THEN "autocommit" ELSE "step"]

\* execute, executemany and commit read the autocommit flag of the
\* connection: a statement that changes rows needs BEGIN when it is set,
\* commit has nothing to do when it is set
ReadAutocommit(c) ==
    LET call == sessions[c]
    IN  /\ call.pc \in DmlStatements \cup CommitCalls
        /\ \/ call.step = "autocommit"
           \/ call.step = "start" /\ ~NeedsPrepare(call)
        /\ UNCHANGED <<trains, tables, in_transaction, statement_cache, last>>
        /\ IF call.pc \in DmlStatements
           THEN sessions' = [sessions EXCEPT ![c].step =
                                IF in_transaction THEN "step" ELSE "begin"]
           ELSE IF in_transaction
           THEN sessions' = [sessions EXCEPT ![c].step = "commit"]
           ELSE Proceed(c, call)

\* BEGIN; it fails when a transaction has been opened since the flag was
\* read, and execute then leaves its statement out
BeginTransaction(c) ==
    LET call == sessions[c]
    IN  /\ call.pc \in DmlStatements
        /\ call.step = "begin"
        /\ UNCHANGED <<trains, tables, statement_cache, last>>
        /\ IF ~in_transaction
           THEN /\ in_transaction' = TRUE
                /\ sessions' = [sessions EXCEPT ![c].step = "step"]
           ELSE \* sqlite3.OperationalError: cannot start a transaction within
                \* a transaction
                /\ UNCHANGED in_transaction
                /\ FailOrProceed(c, call, "OperationalError")

\* COMMIT; it fails when the transaction has been committed since the flag
\* was read
Commit(c) ==
    LET call == sessions[c]
    IN  /\ call.pc \in CommitCalls
        /\ call.step = "commit"
        /\ UNCHANGED <<trains, tables, statement_cache, last>>
        /\ IF in_transaction
           THEN /\ in_transaction' = FALSE
                /\ Proceed(c, call)
           ELSE \* sqlite3.OperationalError: cannot commit - no transaction is
                \* active; SystemError when the error code is lost
                /\ UNCHANGED in_transaction
                /\ \/ Fail(c, call, "OperationalError")
                   \/ OtherInFlight(c) /\ Return(c, call, "SystemError")

\* A request arrives in session c: main() calls init_db(), whose CREATE
\* TABLE IF NOT EXISTS and CREATE UNIQUE INDEX IF NOT EXISTS statements find
\* the tables and the index of the running application, and which then
\* commits
Request(c, call) ==
    /\ sessions[c].pc \in {"idle", "done"}
    /\ UNCHANGED <<trains, tables, in_transaction, statement_cache, last>>
    /\ sessions' = [sessions EXCEPT ![c] =
                       [call EXCEPT !.calls = sessions[c].calls + 1,
                                    !.pc = "init_commit", !.step = "start"]]

\* The Add Train page, submitted: it strips the four text fields
AddBegin(c, train_number, train_name, departure_date, starting_destination, ending_destination) ==
    Request(c, [Idle EXCEPT !.op = "add_train",
                            !.train_number = strip(train_number),
                            !.train_name = strip(train_name),
                            !.departure_date = departure_date_str(departure_date),
                            !.starting_destination = strip(starting_destination),
                            !.ending_destination = strip(ending_destination)])

\* add_train: SELECT 1 FROM trains WHERE train_number = ?
AddLookup(c) ==
    LET call == sessions[c]
    IN  /\ call.op = "add_train"
        /\ Ready(call, "select_train")
        /\ UNCHANGED <<trains, tables, in_transaction, statement_cache, last>>
        /\ IF TrainExists(trains, call.train_number)
           THEN Select(c, call, TRUE, End("DuplicateTrain"))
           ELSE Select(c, call, FALSE, Continue("insert_train"))

\* The rowid SQLite gives a new row of trains: one more than the highest
NextRowid(tr) ==
    IF DOMAIN tr = {} THEN 1
    ELSE 1 + CHOOSE r \in {tr[x].rowid : x \in DOMAIN tr} :
                 \A x \in DOMAIN tr : tr[x].rowid <= r

\* INSERT INTO trains ...; the unique index on train_number refuses a number
\* that has been inserted since the SELECT
AddInsert(c) ==
    LET call == sessions[c]
    IN  /\ call.pc = "insert_train"
        /\ call.step = "step"
        /\ UNCHANGED <<tables, in_transaction, statement_cache, last>>
        /\ IF TrainExists(trains, call.train_number)
           THEN \* sqlite3.IntegrityError: UNIQUE constraint failed
                /\ UNCHANGED trains
                /\ FailOrProceed(c, call, "IntegrityError")
           ELSE /\ trains' = (call.train_number :>
                               [train_name |-> call.train_name,
                                departure_date |-> call.departure_date,
                                starting_destination |-> call.starting_destination,
                                ending_destination |-> call.ending_destination,
                                rowid |-> NextRowid(trains)]) @@ trains
                /\ Proceed(c, call)

\* The Delete Train page, submitted
DeleteBegin(c, train_number, departure_date) ==
    Request(c, [Idle EXCEPT !.op = "delete_train",
                            !.train_number = strip(train_number),
                            !.departure_date = departure_date_str(departure_date)])

\* delete_train: the SELECT on trains, and with its row the comparison of
\* the dates and seat_table_name
DeleteLookup(c) ==
    LET call == sessions[c]
    IN  /\ call.op = "delete_train"
        /\ Ready(call, "select_train")
        /\ UNCHANGED <<trains, tables, in_transaction, statement_cache, last>>
        /\ IF ~TrainExists(trains, call.train_number)
           THEN Select(c, call, FALSE, End("NotFound"))
           ELSE IF trains[call.train_number].departure_date # call.departure_date
           THEN Select(c, call, TRUE, End("DateMismatch"))
           ELSE IF ~sanitize_train_number(call.train_number)
           THEN Select(c, call, TRUE, End("ValidationError"))
           ELSE Select(c, call, TRUE, Continue("drop_table"))

\* DROP TABLE IF EXISTS
DeleteDrop(c) ==
    LET call == sessions[c]
        k    == TableKey(seat_table_name(call.train_number))
    IN  /\ Ready(call, "drop_table")
        /\ UNCHANGED <<trains, in_transaction, statement_cache, last>>
        /\ IF k \in DOMAIN tables /\ OtherFetches(c)
           THEN \* sqlite3.OperationalError: database table is locked
                /\ UNCHANGED tables
                /\ FailOrProceed(c, call, "OperationalError")
           ELSE /\ tables' = DropTable(tables, k)
                /\ Proceed(c, call)

\* DELETE FROM trains WHERE train_number = ?
DeleteRow(c) ==
    LET call == sessions[c]
    IN  /\ call.pc = "delete_row"
        /\ call.step = "step"
        /\ UNCHANGED <<tables, in_transaction, statement_cache, last>>
        /\ trains' = [x \in DOMAIN trains \ {call.train_number} |-> trains[x]]
        /\ Proceed(c, call)

\* The Book Ticket page, submitted
BookBegin(c, train_number, passenger_name, passenger_age, passenger_gender, seat_type) ==
    Request(c, [Idle EXCEPT !.op = "book_ticket",
                            !.train_number = strip(train_number),
                            !.passenger_name = strip(passenger_name),
                            !.passenger_age = passenger_age,
                            !.passenger_gender = passenger_gender,
                            !.seat_type = seat_type])

\* book_ticket: SELECT 1 FROM trains WHERE train_number = ?
BookLookup(c) ==
    LET call == sessions[c]
    IN  /\ call.op = "book_ticket"
        /\ Ready(call, "select_train")
        /\ UNCHANGED <<trains, tables, in_transaction, statement_cache, last>>
        /\ IF ~TrainExists(trains, call.train_number)
           THEN Select(c, call, FALSE, End("TrainNotFound"))
           ELSE Select(c, call, TRUE, Continue("ensure_create"))

\* The View Seats page, submitted: it calls get_seats_df, which begins with
\* ensure_seat_table
ReadBegin(c, train_number) ==
    Request(c, [Idle EXCEPT !.op = "get_seats_df",
                            !.train_number = strip(train_number)])

\* ensure_seat_table: seat_table_name and CREATE TABLE IF NOT EXISTS
EnsureCreate(c) ==
    LET call == sessions[c]
        k    == TableKey(seat_table_name(call.train_number))
    IN  /\ Ready(call, "ensure_create")
        /\ UNCHANGED <<trains, in_transaction, statement_cache, last>>
        /\ IF ~sanitize_train_number(call.train_number)
           THEN /\ Return(c, call, "ValidationError")
                /\ UNCHANGED tables
           ELSE /\ tables' = IF k \in DOMAIN tables THEN tables ELSE (k :> <<>>) @@ tables
                /\ Goto(c, call, "ensure_count")

\* ensure_seat_table: SELECT COUNT(1), .fetchone()[0] and the test count == 0
EnsureCount(c) ==
    LET call == sessions[c]
        k    == TableKey(seat_table_name(call.train_number))
    IN  /\ Ready(call, "ensure_count")
        /\ UNCHANGED <<trains, tables, in_transaction, statement_cache, last>>
        /\ IF TableMissing(call)
           THEN \* the table has been dropped since the statement was
                \* prepared: sqlite3.OperationalError, or None[0] when it is
                \* lost
                \/ Fail(c, call, "OperationalError")
                \/ OtherInFlight(c) /\ Return(c, call, "TypeError")
           ELSE IF Cardinality(DOMAIN tables[k]) = 0
           THEN Select(c, call, TRUE, Continue("ensure_insert"))
           ELSE Select(c, call, TRUE, AfterEnsure(call))

\* ensure_seat_table: the executemany INSERT of the seats 1..total_seats,
\* one row of the list per step. seat_number is the primary key, so a seat
\* that is there already fails the INSERT and ends the executemany; the rows
\* before it stay
EnsureInsert(c) ==
    LET call == sessions[c]
        k    == TableKey(seat_table_name(call.train_number))
    IN  /\ call.pc = "ensure_insert"
        /\ call.step = "step"
        /\ UNCHANGED <<trains, in_transaction, statement_cache, last>>
        /\ IF TableMissing(call)
           THEN \* sqlite3.OperationalError: no such table
                /\ UNCHANGED tables
                /\ FailOrProceed(c, call, "OperationalError")
           ELSE IF call.row \in DOMAIN tables[k]
           THEN \* sqlite3.IntegrityError: UNIQUE constraint failed
                /\ UNCHANGED tables
                /\ FailOrProceed(c, call, "IntegrityError")
           ELSE /\ tables' = [tables EXCEPT ![k] =
                                 [n \in DOMAIN @ \cup {call.row} |->
                                     IF n = call.row THEN SeedRows(TotalSeats)[n]
                                     ELSE @[n]]]
                /\ IF call.row = TotalSeats
                   THEN Proceed(c, call)
                   ELSE sessions' = [sessions EXCEPT ![c].row = call.row + 1]

\* allocate_next_available_seat after ensure_seat_table: the SELECT of the
\* lowest unbooked seat, and the test of its result in book_ticket
BookAllocate(c) ==
    LET call == sessions[c]
        k    == TableKey(seat_table_name(call.train_number))
    IN  /\ Ready(call, "select_seat")
        /\ UNCHANGED <<trains, tables, in_transaction, statement_cache, last>>
        /\ IF TableMissing(call)
           THEN \* the table has been dropped since the statement was
                \* prepared: sqlite3.OperationalError, or no row when it is
                \* lost
                \/ Fail(c, call, "OperationalError")
                \/ OtherInFlight(c) /\ Return(c, call, "NoAvailableSeat")
           ELSE LET seat == LowestUnbookedSeat(tables[k], call.seat_type)
                IN  IF seat = 0
                    THEN Select(c, call, FALSE, End("NoAvailableSeat"))
                    ELSE Select(c, [call EXCEPT !.seat_number = seat], TRUE,
                                Continue("update"))

\* The UPDATE of the allocated seat
BookUpdate(c) ==
    LET call == sessions[c]
        k    == TableKey(seat_table_name(call.train_number))
    IN  /\ call.pc = "update"
        /\ call.step = "step"
        /\ UNCHANGED <<trains, in_transaction, statement_cache, last>>
        /\ IF TableMissing(call)
           THEN \* the table has been dropped since the statement was
                \* prepared: sqlite3.OperationalError
                /\ UNCHANGED tables
                /\ FailOrProceed(c, call, "OperationalError")
           ELSE /\ tables' = IF call.seat_number \in DOMAIN tables[k]
                             THEN [tables EXCEPT ![k][call.seat_number] =
                                      BookRow(@, call.passenger_name, call.passenger_age,
                                              call.passenger_gender)]
                             ELSE tables
                /\ Proceed(c, call)

\* The Cancel Ticket page, submitted
CancelBegin(c, train_number, seat_number) ==
    Request(c, [Idle EXCEPT !.op = "cancel_tickets",
                            !.train_number = strip(train_number),
                            !.seat_number = seat_number])

\* cancel_tickets: the SELECT on trains, and with its row seat_table_name
CancelLookup(c) ==
    LET call == sessions[c]
    IN  /\ call.op = "cancel_tickets"
        /\ Ready(call, "select_train")
        /\ UNCHANGED <<trains, tables, in_transaction, statement_cache, last>>
        /\ IF ~TrainExists(trains, call.train_number)
           THEN Select(c, call, FALSE, End("TrainNotFound"))
           ELSE IF ~sanitize_train_number(call.train_number)
           THEN Select(c, call, TRUE, End("ValidationError"))
           ELSE Select(c, call, TRUE, Continue("select_row"))

\* SELECT seat_number, booked ... WHERE seat_number = ?, and the test of its
\* result
CancelSelect(c) ==
    LET call == sessions[c]
        k    == TableKey(seat_table_name(call.train_number))
    IN  /\ Ready(call, "select_row")
        /\ UNCHANGED <<trains, tables, in_transaction, statement_cache, last>>
        /\ IF TableMissing(call)
           THEN \/ Fail(c, call, "OperationalError")
                \/ OtherInFlight(c) /\ Return(c, call, "SeatNotFound")
           ELSE IF call.seat_number \notin DOMAIN tables[k]
           THEN Select(c, call, FALSE, End("SeatNotFound"))
           ELSE Select(c, call, TRUE, Continue("clear"))

\* The UPDATE that clears the seat
CancelUpdate(c) ==
    LET call == sessions[c]
        k    == TableKey(seat_table_name(call.train_number))
    IN  /\ call.pc = "clear"
        /\ call.step = "step"
        /\ UNCHANGED <<trains, in_transaction, statement_cache, last>>
        /\ IF TableMissing(call)
           THEN /\ UNCHANGED tables
                /\ FailOrProceed(c, call, "OperationalError")
           ELSE /\ tables' = IF call.seat_number \in DOMAIN tables[k]
                             THEN [tables EXCEPT ![k][call.seat_number] = CancelRow(@)]
                             ELSE tables
                /\ Proceed(c, call)

\* The seats of a table after seat number n, in the order of the SELECT
SeatsAfter(rows, n) == {m \in DOMAIN rows : m > n}

LowestSeat(seats) == CHOOSE n \in seats : \A m \in seats : n <= m

\* get_seats_df after ensure_seat_table: execute runs the SELECT of all rows
\* up to the first of them. With no row the data frame is empty and the page
\* reports that no seats were found
SeatsSelect(c) ==
    LET call == sessions[c]
        k    == TableKey(seat_table_name(call.train_number))
    IN  /\ Ready(call, "select_rows")
        /\ UNCHANGED <<trains, tables, in_transaction, statement_cache, last>>
        /\ IF TableMissing(call)
           THEN \/ Fail(c, call, "OperationalError")
                \/ OtherInFlight(c) /\ Return(c, call, "NoSeats")
           ELSE IF DOMAIN tables[k] = {}
           THEN Select(c, call, FALSE, End("NoSeats"))
           ELSE Select(c, [call EXCEPT !.row = LowestSeat(DOMAIN tables[k])], TRUE,
                       Continue("ensure_create"))

\* fetchall on the SELECT of get_seats_df: it takes the row the SELECT is at
\* and runs it on to the next seat the table holds by now. After the last
\* row the page goes on to get_seat_availability with the data frame, which
\* has one line per row
SeatsFetch(c) ==
    LET call == sessions[c]
        k    == TableKey(seat_table_name(call.train_number))
        rest == IF TableMissing(call) THEN {} ELSE SeatsAfter(tables[k], call.row)
    IN  /\ call.pc = "select_rows"
        /\ call.step = "fetch"
        /\ UNCHANGED <<trains, tables, in_transaction, statement_cache, last>>
        /\ IF rest = {}
           THEN Goto(c, [call EXCEPT !.df = call.df + 1,
                                     !.op = "get_seat_availability"], "ensure_create")
           ELSE sessions' = [sessions EXCEPT ![c].df = call.df + 1,
                                             ![c].row = LowestSeat(rest)]

\* get_seat_availability after ensure_seat_table: the SELECT ... GROUP BY
\* seat_type, which sorts the rows of the table when it is executed
AvailabilitySelect(c) ==
    LET call == sessions[c]
        k    == TableKey(seat_table_name(call.train_number))
    IN  /\ Ready(call, "select_summary")
        /\ UNCHANGED <<trains, tables, in_transaction, statement_cache, last>>
        /\ IF TableMissing(call)
           THEN \/ Fail(c, call, "OperationalError")
                \/ OtherInFlight(c) /\ Goto(c, [call EXCEPT !.rows = <<>>], "select_total")
           ELSE Select(c, [call EXCEPT !.rows = AvailabilityRows(tables[k])],
                       DOMAIN tables[k] # {}, Continue("select_total"))

\* get_seat_availability: SELECT COUNT(1) and .fetchone()[0]
AvailabilityTotal(c) ==
    LET call == sessions[c]
        k    == TableKey(seat_table_name(call.train_number))
    IN  /\ Ready(call, "select_total")
        /\ UNCHANGED <<trains, tables, in_transaction, statement_cache, last>>
        /\ IF TableMissing(call)
           THEN \/ Fail(c, call, "OperationalError")
                \/ OtherInFlight(c) /\ Return(c, call, "TypeError")
           ELSE Select(c, [call EXCEPT !.total = Cardinality(DOMAIN tables[k])],
                       TRUE, End("ok"))

\* The Search Train page, searched by train number
SearchBegin(c, train_number) ==
    Request(c, [Idle EXCEPT !.op = "search_train_by_train_number",
                            !.train_number = strip(train_number)])

\* search_train_by_train_number: the SELECT on trains and its fetchone
SearchLookup(c) ==
    LET call == sessions[c]
    IN  /\ call.op = "search_train_by_train_number"
        /\ Ready(call, "select_train")
        /\ UNCHANGED <<trains, tables, in_transaction, statement_cache, last>>
        /\ IF TrainExists(trains, call.train_number)
           THEN Select(c, [call EXCEPT !.total = 1], TRUE, End("ok"))
           ELSE Select(c, call, FALSE, End("NotFound"))

\* The View Trains page
TrainsBegin(c) ==
    Request(c, [Idle EXCEPT !.op = "view_trains"])

\* The Search Train page, searched by destinations: it strips both fields
DestinationsBegin(c, starting_destination, ending_destination) ==
    Request(c, [Idle EXCEPT !.op = "search_trains_by_destinations",
                            !.starting_destination = strip(starting_destination),
                            !.ending_destination = strip(ending_destination)])

\* The rows of trains a page selects that come after rowid n: all of them
\* for View Trains, those between the two destinations for the search
TrainsAfter(call, n) ==
    {x \in DOMAIN trains :
        /\ trains[x].rowid > n
        /\ \/ call.op = "view_trains"
           \/ /\ trains[x].starting_destination = call.starting_destination
              /\ trains[x].ending_destination = call.ending_destination}

FirstTrain(found) ==
    CHOOSE x \in found : \A y \in found : trains[x].rowid <= trains[y].rowid

\* SELECT ... FROM trains of the View Trains page and of
\* search_trains_by_destinations: execute runs it up to its first row
TrainsSelect(c) ==
    LET call  == sessions[c]
        found == TrainsAfter(call, 0)
    IN  /\ Ready(call, "select_trains")
        /\ UNCHANGED <<trains, tables, in_transaction, statement_cache, last>>
        /\ IF found = {}
           THEN Select(c, call, FALSE, End("NotFound"))
           ELSE Select(c, [call EXCEPT !.row = trains[FirstTrain(found)].rowid], TRUE,
                       End("ok"))

\* fetchall on it: it takes the row the SELECT is at and runs it on to the
\* next row trains holds by now
TrainsFetch(c) ==
    LET call == sessions[c]
        rest == TrainsAfter(call, call.row)
    IN  /\ call.pc = "select_trains"
        /\ call.step = "fetch"
        /\ UNCHANGED <<trains, tables, in_transaction, statement_cache, last>>
        /\ IF rest = {}
           THEN Return(c, [call EXCEPT !.total = call.total + 1], "ok")
           ELSE sessions' = [sessions EXCEPT ![c].total = call.total + 1,
                                             ![c].row = trains[FirstTrain(rest)].rowid]

---------------------------------------------------------------------------
(* Inputs *)

DateObj(y, m, d) == [isdate |-> TRUE, y |-> y, m |-> m, d |-> d, s |-> <<>>]
DateStr(s) == [isdate |-> FALSE, y |-> 0, m |-> 0, d |-> 0, s |-> s]

Date1 == DateObj(2025, 1, 1)
Date2 == DateObj(2025, 12, 31)
Date1Text == DateStr(<<"2","0","2","5","-","0","1","-","0","1">>)

T1 == <<"T", "1">>
t1 == <<"t", "1">>
BadNumber == <<"1", " ", "2">>

\* The train numbers of the calls; add_train is also given the empty one
TrainNumbers == {T1, t1, BadNumber}

AddTrainNumbers == TrainNumbers \cup {<<>>}

Express == [name |-> "Express", date |-> Date1, start |-> "A", end |-> "B"]
Local   == [name |-> "Local",   date |-> Date2, start |-> "C", end |-> "D"]

TrainInputs ==
    { Express, Local,
      [Express EXCEPT !.name = ""],
      [Express EXCEPT !.start = ""],
      [Express EXCEPT !.end = ""] }

DateInputs == {Date1, Date2, Date1Text}

Alice == [name |-> <<"A", "l">>, age |-> 30, gender |-> "Female"]
Bob   == [name |-> <<"\r", " ", "B", "o", "\f">>, age |-> 40, gender |-> "Male"]

Passengers == {Alice, Bob}

SeatTypes == {"Window", "Aisle", "Middle"}

CancelSeats == {0, 1, 4, TotalSeats, TotalSeats + 1}

\* The number of booked seats in the store
BookedTotal ==
    Cardinality({kn \in UNION {{k} \X DOMAIN tables[k] : k \in DOMAIN tables} :
                    tables[kn[1]][kn[2]].booked = 1})

Next ==
    \/ /\ UNCHANGED <<sessions, in_transaction, statement_cache>>
       /\ \E tn \in AddTrainNumbers, t \in TrainInputs :
             add_train(tn, t.name, t.date, t.start, t.end)
    \/ /\ UNCHANGED <<sessions, in_transaction, statement_cache>>
       /\ \E tn \in TrainNumbers, d \in DateInputs : delete_train(tn, d)
    \/ /\ UNCHANGED <<sessions, in_transaction, statement_cache>>
       /\ BookedTotal < MaxBooked
       /\ \E tn \in TrainNumbers, p \in Passengers, st \in SeatTypes :
             book_ticket(tn, p.name, p.age, p.gender, st)
    \/ /\ UNCHANGED <<sessions, in_transaction, statement_cache>>
       /\ \E tn \in TrainNumbers, n \in CancelSeats : cancel_tickets(tn, n)
    \/ /\ UNCHANGED <<sessions, in_transaction, statement_cache>>
       /\ \E tn \in TrainNumbers : get_seats_df(tn)
    \/ /\ UNCHANGED <<sessions, in_transaction, statement_cache>>
       /\ \E tn \in TrainNumbers : get_seat_availability(tn)

Spec == Init /\ [][Next]_vars

\* One train and one passenger, with no bound on the bookings: every category
\* can be booked out.
FullCancelSeats == {1}

NextFull ==
    \/ /\ UNCHANGED <<sessions, in_transaction, statement_cache>>
       /\ add_train(T1, Express.name, Express.date, Express.start, Express.end)
    \/ /\ UNCHANGED <<sessions, in_transaction, statement_cache>>
       /\ delete_train(T1, Express.date)
    \/ /\ UNCHANGED <<sessions, in_transaction, statement_cache>>
       /\ \E st \in SeatTypes :
             book_ticket(T1, Alice.name, Alice.age, Alice.gender, st)
    \/ /\ UNCHANGED <<sessions, in_transaction, statement_cache>>
       /\ \E n \in FullCancelSeats : cancel_tickets(T1, n)
    \/ /\ UNCHANGED <<sessions, in_transaction, statement_cache>>
       /\ get_seat_availability(T1)

SpecFull == Init /\ [][NextFull]_vars

\* Every data access function called on its own, ensure_seat_table and
\* allocate_next_available_seat included; add_train and delete_train are
\* also given a longer train number with an underscore.
RJ12_EXP == <<"R", "J", "1", "2", "_", "E", "X", "P">>

AccessCancelSeats == {4, TotalSeats + 1}

NextAccess ==
    \/ /\ UNCHANGED <<sessions, in_transaction, statement_cache>>
       /\ \E tn \in AddTrainNumbers \cup {RJ12_EXP} :
             add_train(tn, Express.name, Express.date, Express.start, Express.end)
    \/ /\ UNCHANGED <<sessions, in_transaction, statement_cache>>
       /\ \E tn \in TrainNumbers \cup {RJ12_EXP}, d \in {Date1, Date2} :
             delete_train(tn, d)
    \/ /\ UNCHANGED <<sessions, in_transaction, statement_cache>>
       /\ BookedTotal < MaxBooked
       /\ \E tn \in TrainNumbers, st \in SeatTypes :
             book_ticket(tn, Alice.name, Alice.age, Alice.gender, st)
    \/ /\ UNCHANGED <<sessions, in_transaction, statement_cache>>
       /\ \E tn \in TrainNumbers, n \in AccessCancelSeats : cancel_tickets(tn, n)
    \/ /\ UNCHANGED <<sessions, in_transaction, statement_cache>>
       /\ \E tn \in TrainNumbers : get_seats_df(tn)
    \/ /\ UNCHANGED <<sessions, in_transaction, statement_cache>>
       /\ \E tn \in TrainNumbers : get_seat_availability(tn)
    \/ /\ UNCHANGED <<sessions, in_transaction, statement_cache>>
       /\ \E tn \in TrainNumbers : EnsureInventory(tn)
    \/ /\ UNCHANGED <<sessions, in_transaction, statement_cache>>
       /\ \E tn \in TrainNumbers, st \in SeatTypes : AllocateNextAvailable(tn, st)

SpecAccess == Init /\ [][NextAccess]_vars

\* The registry calls with each of the five fields of add_train filled in or
\* empty; the empty departure date is the empty string
EmptyDate == DateStr(<<>>)

RegistryNumbers == {T1, t1, <<>>}
RegistryNames == {"Express", ""}
RegistryDates == {Date1, EmptyDate}
RegistryStarts == {"A", ""}
RegistryEnds == {"B", ""}

NextRegistry ==
    \/ /\ UNCHANGED <<sessions, in_transaction, statement_cache>>
       /\ \E tn \in RegistryNumbers, name \in RegistryNames, d \in RegistryDates,
             start \in RegistryStarts, end \in RegistryEnds :
             add_train(tn, name, d, start, end)
    \/ /\ UNCHANGED <<sessions, in_transaction, statement_cache>>
       /\ \E tn \in RegistryNumbers, d \in RegistryDates : delete_train(tn, d)
    \/ /\ UNCHANGED <<sessions, in_transaction, statement_cache>>
       /\ BookedTotal < MaxBooked
       /\ \E tn \in RegistryNumbers, st \in SeatTypes :
             book_ticket(tn, Alice.name, Alice.age, Alice.gender, st)
    \/ /\ UNCHANGED <<sessions, in_transaction, statement_cache>>
       /\ \E tn \in RegistryNumbers \ {<<>>} : get_seats_df(tn)

SpecRegistry == Init /\ [][NextRegistry]_vars

\* Two sessions send their requests side by side, on one train and each
\* booking for its own passenger; a new request arrives while fewer than
\* MaxCalls requests have been made
SessionPassenger == [c \in Callers |-> IF c = "s1" THEN Alice ELSE Bob]

\* The text fields of the Add Train and Search Train pages, as typed; the
\* name of a train is also left blank
ConcurrentTrain ==
    [name |-> <<" ", "E", "x">>, date |-> Date1, start |-> <<"A", " ">>, end |-> <<"B">>]

ConcurrentNames == {ConcurrentTrain.name, <<" ", " ">>}

ConcurrentNumbers == {T1}

ConcurrentSeatTypes == {"Window"}

ConcurrentCancelSeats == {4}

\* The requests the sessions have made
CallsMade == sessions["s1"].calls + sessions["s2"].calls

\* The application starts on the database file railway_system.db as an
\* earlier run has left it, with train T1 added and none of its seats
\* booked. The connection is new, with no statement prepared and no
\* transaction open
StoredTrains ==
    T1 :> [train_name |-> strip(ConcurrentTrain.name),
           departure_date |-> departure_date_str(ConcurrentTrain.date),
           starting_destination |-> strip(ConcurrentTrain.start),
           ending_destination |-> strip(ConcurrentTrain.end),
           rowid |-> 1]

StoredTables == TableKey(seat_table_name(T1)) :> SeedRows(TotalSeats)

InitConcurrent ==
    /\ trains = StoredTrains
    /\ tables = StoredTables
    /\ last = Report("init_db", "ok", 0, <<>>, 0)
    /\ sessions = [c \in Callers |-> Idle]
    /\ in_transaction = FALSE
    /\ statement_cache = {}

NextConcurrent ==
    \/ /\ CallsMade < MaxCalls
       /\ \E c \in Callers, tn \in ConcurrentNumbers, name \in ConcurrentNames :
             AddBegin(c, tn, name, ConcurrentTrain.date,
                      ConcurrentTrain.start, ConcurrentTrain.end)
    \/ /\ CallsMade < MaxCalls
       /\ \E c \in Callers, tn \in ConcurrentNumbers :
             DeleteBegin(c, tn, ConcurrentTrain.date)
    \/ /\ CallsMade < MaxCalls
       /\ \E c \in Callers, tn \in ConcurrentNumbers, st \in ConcurrentSeatTypes :
             BookBegin(c, tn, SessionPassenger[c].name, SessionPassenger[c].age,
                       SessionPassenger[c].gender, st)
    \/ /\ CallsMade < MaxCalls
       /\ \E c \in Callers, tn \in ConcurrentNumbers, n \in ConcurrentCancelSeats :
             CancelBegin(c, tn, n)
    \/ /\ CallsMade < MaxCalls
       /\ \E c \in Callers, tn \in ConcurrentNumbers : ReadBegin(c, tn)
    \/ /\ CallsMade < MaxCalls
       /\ \E c \in Callers, tn \in ConcurrentNumbers : SearchBegin(c, tn)
    \/ /\ CallsMade < MaxCalls
       /\ \E c \in Callers : TrainsBegin(c)
    \/ /\ CallsMade < MaxCalls
       /\ \E c \in Callers :
             DestinationsBegin(c, ConcurrentTrain.start, ConcurrentTrain.end)
    \/ \E c \in Callers : PrepareStatement(c)
    \/ \E c \in Callers : ReadAutocommit(c)
    \/ \E c \in Callers : BeginTransaction(c)
    \/ \E c \in Callers : Commit(c)
    \/ \E c \in Callers : Fetch(c)
    \/ \E c \in Callers : AddLookup(c)
    \/ \E c \in Callers : AddInsert(c)
    \/ \E c \in Callers : DeleteLookup(c)
    \/ \E c \in Callers : DeleteDrop(c)
    \/ \E c \in Callers : DeleteRow(c)
    \/ \E c \in Callers : BookLookup(c)
    \/ \E c \in Callers : EnsureCreate(c)
    \/ \E c \in Callers : EnsureCount(c)
    \/ \E c \in Callers : EnsureInsert(c)
    \/ \E c \in Callers : BookAllocate(c)
    \/ \E c \in Callers : BookUpdate(c)
    \/ \E c \in Callers : CancelLookup(c)
    \/ \E c \in Callers : CancelSelect(c)
    \/ \E c \in Callers : CancelUpdate(c)
    \/ \E c \in Callers : SeatsSelect(c)
    \/ \E c \in Callers : SeatsFetch(c)
    \/ \E c \in Callers : AvailabilitySelect(c)
    \/ \E c \in Callers : AvailabilityTotal(c)
    \/ \E c \in Callers : SearchLookup(c)
    \/ \E c \in Callers : TrainsSelect(c)
    \/ \E c \in Callers : TrainsFetch(c)
    \/ \E c \in Callers : Leave(c)

SpecConcurrent == InitConcurrent /\ [][NextConcurrent]_vars

---------------------------------------------------------------------------
(* Properties *)

\* The inventory a call on train_number works on: the seat table, or the
\* rows ensure_seat_table seeds when there is none yet
InventoryOf(t, train_number) ==
    LET k == TableKey(seat_table_name(train_number))
    IN  IF k \in DOMAIN t /\ DOMAIN t[k] # {} THEN t[k] ELSE SeedRows(TotalSeats)

BookedSeats(rows) == {n \in DOMAIN rows : rows[n].booked = 1}

Unbooked(row) ==
    /\ row.booked = 0
    /\ row.passenger_name = Null
    /\ row.passenger_age = Null
    /\ row.passenger_gender = Null

FullyBooked(row) ==
    /\ row.booked = 1
    /\ row.passenger_name # Null
    /\ row.passenger_age # Null
    /\ row.passenger_gender # Null

\* C1: a successful Book is assigned the smallest seat number that is unbooked
\* and of the requested category in the train's inventory at the call, and
\* marks it booked, so a Book for the same train and category that follows
\* it immediately is assigned a different seat; on an inventory with no
\* booking a Window Book gets seat 4, and with only seat 4 booked seat 5.
C1_LowestSeat ==
    [][(last'.op = "book_ticket" /\ last'.status = "ok") =>
       \A tn \in TrainNumbers, p \in Passengers, st \in SeatTypes :
        book_ticket(tn, p.name, p.age, p.gender, st) =>
            LET inv  == InventoryOf(tables, tn)
                inv2 == InventoryOf(tables', tn)
                s    == last'.seat
            IN  /\ s \in DOMAIN inv
                /\ inv[s].seat_type = st
                /\ inv[s].booked = 0
                /\ \A n \in DOMAIN inv :
                      (n < s /\ inv[n].seat_type = st) => inv[n].booked = 1
                /\ inv2[s].booked = 1
                /\ allocate_next_available_seat(tables', tn, st).seat # s
                /\ (st = "Window" /\ BookedSeats(inv) = {}) => s = 4
                /\ (st = "Window" /\ BookedSeats(inv) = {4}) => s = 5
      ]_vars

\* C1 witness: two Window bookings on a fresh train, the second got seat 5
C1_Witness ==
    /\ last.op = "book_ticket" /\ last.status = "ok" /\ last.seat = 5
    /\ T1 \in DOMAIN trains
    /\ BookedSeats(InventoryOf(tables, T1)) = {4, 5}

\* C2: every seat of every inventory is fully booked (flag set, name, age
\* and gender all stored) or fully unbooked (flag clear, name, age and gender
\* all NULL)
C2_NoPartialSeat ==
    \A k \in DOMAIN tables : \A n \in DOMAIN tables[k] :
        FullyBooked(tables[k][n]) \/ Unbooked(tables[k][n])

\* C2 witness: a seat has been cancelled while another one stays booked
C2_Witness ==
    /\ last.op = "cancel_tickets" /\ last.status = "ok" /\ last.seat = 4
    /\ \E k \in DOMAIN tables :
          /\ Unbooked(tables[k][4])
          /\ FullyBooked(tables[k][1])
          /\ tables[k][1].passenger_name = Some(<<"B", "o">>)

\* C3: when an inventory exists and every seat of a category is booked, Book
\* for that train and category reports NoAvailableSeat and leaves the
\* registry and every inventory unchanged
C3_NoAvailableSeat ==
    [][(last'.op = "book_ticket") =>
       \A tn \in TrainNumbers, p \in Passengers, st \in SeatTypes :
        LET k == TableKey(seat_table_name(tn))
        IN  ( /\ tn \in DOMAIN trains
              /\ k \in DOMAIN tables
              /\ \E n \in DOMAIN tables[k] : tables[k][n].seat_type = st
              /\ \A n \in DOMAIN tables[k] :
                    tables[k][n].seat_type = st => tables[k][n].booked = 1
              /\ book_ticket(tn, p.name, p.age, p.gender, st) )
            => (last'.status = "NoAvailableSeat" /\ UNCHANGED <<trains, tables>>)
      ]_vars

\* C3 witness: all 50 seats are booked and a Book has just been refused
C3_Witness ==
    /\ last.op = "book_ticket" /\ last.status = "NoAvailableSeat"
    /\ T1 \in DOMAIN trains
    /\ LET rows == InventoryOf(tables, T1)
       IN  /\ CountRows(rows, "Window", 1) = 20
           /\ CountRows(rows, "Aisle", 1) = 20
           /\ CountRows(rows, "Middle", 1) = 10

\* C4: Cancel on a registered train and a seat number in 1..50 always reports
\* success and leaves that seat unbooked with name, age and gender empty,
\* whatever its prior state; cancelling the same seat again changes nothing
C4_CancelAlwaysSucceeds ==
    [][(last'.op = "cancel_tickets") =>
       \A tn \in TrainNumbers, n \in CancelSeats :
        (tn \in DOMAIN trains /\ n \in 1..TotalSeats /\ cancel_tickets(tn, n)) =>
            LET k == TableKey(seat_table_name(tn))
            IN  /\ last'.status = "ok"
                /\ k \in DOMAIN tables'
                /\ Unbooked(tables'[k][n])
                /\ CancelRow(tables'[k][n]) = tables'[k][n]
      ]_vars

\* C5: Book or Cancel on a train number that is not registered reports
\* TrainNotFound, Cancel on a registered train with a seat number outside
\* 1..50 reports SeatNotFound, and in each case the registry and every
\* inventory stay unchanged
C5_NotFoundFailures ==
    [][(last'.op \in {"book_ticket", "cancel_tickets"}) =>
       /\ \A tn \in TrainNumbers, p \in Passengers, st \in SeatTypes :
            (tn \notin DOMAIN trains /\ book_ticket(tn, p.name, p.age, p.gender, st))
            => (last'.status = "TrainNotFound" /\ UNCHANGED <<trains, tables>>)
       /\ \A tn \in TrainNumbers, n \in CancelSeats :
            (tn \notin DOMAIN trains /\ cancel_tickets(tn, n))
            => (last'.status = "TrainNotFound" /\ UNCHANGED <<trains, tables>>)
       /\ \A tn \in TrainNumbers, n \in CancelSeats :
            (tn \in DOMAIN trains /\ n \notin 1..TotalSeats /\ cancel_tickets(tn, n))
            => (last'.status = "SeatNotFound" /\ UNCHANGED <<trains, tables>>)
      ]_vars

\* C6: CreateTrain (with its other fields filled in) on a train number that is
\* already registered reports DuplicateTrain and leaves the registry, the
\* existing record included, and every inventory with its bookings unchanged
C6_DuplicateTrain ==
    [][(last'.op = "add_train") =>
       \A tn \in AddTrainNumbers, t \in TrainInputs :
        ( /\ tn \in DOMAIN trains
          /\ t.name # "" /\ t.start # "" /\ t.end # ""
          /\ add_train(tn, t.name, t.date, t.start, t.end) )
        => (last'.status = "DuplicateTrain" /\ UNCHANGED <<trains, tables>>)
      ]_vars

\* C6 witness: a duplicate CreateTrain was refused while the registered train
\* holds a booking
C6_Witness ==
    /\ last.op = "add_train" /\ last.status = "DuplicateTrain"
    /\ T1 \in DOMAIN trains
    /\ trains[T1].train_name = "Express"
    /\ BookedSeats(InventoryOf(tables, T1)) # {}

\* C7: right after a successful CreateTrain the inventory of the new train
\* has exactly the seats 1..50, all unbooked, each of the category the
\* classification rule gives, whatever happened before
C7_FreshInventoryAfterCreate ==
    [][(last'.op = "add_train" /\ last'.status = "ok") =>
       \A tn \in AddTrainNumbers, t \in TrainInputs :
        add_train(tn, t.name, t.date, t.start, t.end) =>
            LET k == TableKey(seat_table_name(tn))
            IN  /\ k \in DOMAIN tables'
                /\ DOMAIN tables'[k] = 1..TotalSeats
                /\ \A n \in 1..TotalSeats :
                      /\ Unbooked(tables'[k][n])
                      /\ tables'[k][n].seat_type = categorize_seat(n)
      ]_vars

\* C8: DeleteTrain reports NotFound for a train number that is not registered
\* and DateMismatch when the supplied date is not the stored departure date;
\* in both cases the registry and every inventory stay unchanged
C8_DeleteFailures ==
    [][(last'.op = "delete_train") =>
       \A tn \in TrainNumbers, d \in DateInputs :
        /\ (tn \notin DOMAIN trains /\ delete_train(tn, d))
           => (last'.status = "NotFound" /\ UNCHANGED <<trains, tables>>)
        /\ ( /\ tn \in DOMAIN trains
             /\ trains[tn].departure_date # departure_date_str(d)
             /\ delete_train(tn, d) )
           => (last'.status = "DateMismatch" /\ UNCHANGED <<trains, tables>>)
      ]_vars

\* C8 witness: a DeleteTrain with the wrong date was refused on a train that
\* holds a booking
C8_Witness ==
    /\ last.op = "delete_train" /\ last.status = "DateMismatch"
    /\ T1 \in DOMAIN trains
    /\ BookedSeats(InventoryOf(tables, T1)) # {}

\* C9: DeleteTrain with the stored departure date removes the train record
\* and its whole seat table, and a seat table that comes into existence
\* (through EnsureInventory in any call) has the seats 1..50 all unbooked,
\* but for the seat the same call books, so no booking survives a deletion
C9_DeleteThenFresh ==
    [][/\ (last'.op = "delete_train") =>
          \A tn \in TrainNumbers, d \in DateInputs :
            ( /\ tn \in DOMAIN trains
              /\ trains[tn].departure_date = departure_date_str(d)
              /\ delete_train(tn, d) )
            => /\ last'.status = "ok"
               /\ tn \notin DOMAIN trains'
               /\ TableKey(seat_table_name(tn)) \notin DOMAIN tables'
               /\ InventoryOf(ensure_seat_table(tables', tn, TotalSeats), tn)
                     = SeedRows(TotalSeats)
       /\ \A k \in DOMAIN tables' \ DOMAIN tables :
            /\ DOMAIN tables'[k] = 1..TotalSeats
            /\ \A n \in 1..TotalSeats :
                  \/ Unbooked(tables'[k][n])
                  \/ /\ last'.op = "book_ticket" /\ last'.status = "ok"
                     /\ last'.seat = n
      ]_vars

\* C9 witness: a train was deleted and its seat table is gone
C9_Witness ==
    /\ last.op = "delete_train" /\ last.status = "ok"
    /\ T1 \notin DOMAIN trains
    /\ TableKey(seat_table_name(T1)) \notin DOMAIN tables

\* The number of seats of a category among 1..50
SeatsOfType(seat_type) ==
    Cardinality({n \in 1..TotalSeats : categorize_seat(n) = seat_type})

SummaryOk(rows, total) ==
    /\ {rows[i][1] : i \in DOMAIN rows} = {"Window", "Aisle", "Middle"}
    /\ Len(rows) = 3
    /\ \A i \in DOMAIN rows :
          /\ rows[i][2] + rows[i][3] = SeatsOfType(rows[i][1])
          /\ rows[i][2] + rows[i][3] =
                (IF rows[i][1] = "Middle" THEN 10 ELSE 20)
    /\ rows[1][2] + rows[1][3] + rows[2][2] + rows[2][3]
          + rows[3][2] + rows[3][3] = total

\* C10: in every reachable state AvailabilitySummary returns, per category,
\* available + booked = the number of seats of the category (20 Window, 20
\* Aisle, 10 Middle), and these sums add up to the total it reports
C10_SummaryTotals ==
    /\ LET r == seat_availability(tables, T1) IN SummaryOk(r.rows, r.total)
    /\ (last.op = "get_seat_availability" /\ last.status = "ok")
          => SummaryOk(last.rows, last.total)

\* C10 witness: a summary was returned with booked and available seats in
\* every category
C10_Witness ==
    /\ last.op = "get_seat_availability" /\ last.status = "ok"
    /\ \A i \in DOMAIN last.rows : last.rows[i][2] > 0 /\ last.rows[i][3] > 0

\* C11: EnsureInventory, called on its own or through AllocateNextAvailable,
\* ListSeats or AvailabilitySummary, changes nothing when the seat table of
\* the train number already has rows (no booking is reset, nothing is seeded
\* again), and a second call right after the first changes nothing
C11_EnsureIdempotent ==
    [][(/\ last'.op \in {"ensure_seat_table", "allocate_next_available_seat",
                         "get_seats_df", "get_seat_availability"}
        /\ last'.status = "ok") =>
       \A tn \in TrainNumbers, st \in SeatTypes :
        ( \/ EnsureInventory(tn)
          \/ AllocateNextAvailable(tn, st)
          \/ get_seats_df(tn)
          \/ get_seat_availability(tn) ) =>
            LET k == TableKey(seat_table_name(tn))
            IN  /\ (k \in DOMAIN tables /\ DOMAIN tables[k] # {})
                      => tables' = tables
                /\ tables' = ensure_seat_table(tables, tn, TotalSeats)
                /\ ensure_seat_table(tables', tn, TotalSeats) = tables'
      ]_vars

\* C11 witness: EnsureInventory was called on a train that holds a booking,
\* and the booking is still there
C11_Witness ==
    /\ last.op = "ensure_seat_table" /\ last.status = "ok"
    /\ T1 \in DOMAIN trains
    /\ BookedSeats(InventoryOf(tables, T1)) = {4}
    /\ tables[TableKey(seat_table_name(T1))][4].passenger_name = Some(<<"A", "l">>)

\* C12: CreateTrain with any one of its five fields (number, name, departure
\* date, start, end) empty reports ValidationError and creates neither a
\* train record nor a seat table
C12_EmptyFieldRejected ==
    [][(last'.op = "add_train") =>
       \A tn \in RegistryNumbers, name \in RegistryNames, d \in RegistryDates,
          start \in RegistryStarts, end \in RegistryEnds :
        ( /\ \/ tn = <<>> \/ name = "" \/ departure_date_str(d) = <<>>
             \/ start = "" \/ end = ""
          /\ add_train(tn, name, d, start, end) )
        => (last'.status = "ValidationError" /\ UNCHANGED <<trains, tables>>)
      ]_vars

\* The texts of the pattern [A-Za-z0-9_]+
IsSafeIdentifier(id) == id # <<>> /\ id \in Seq(SafeChars)

\* The train number part of a seat table key is a text of the pattern
SafeTableKey(k) ==
    /\ Len(k) > 6
    /\ SubSeq(k, 1, 6) = <<"s", "e", "a", "t", "s", "_">>
    /\ IsSafeIdentifier(SubSeq(k, 7, Len(k)))

\* What each entry point did with a train number outside the pattern
UnsafeNumberOutcomes(kinds) ==
    \A tn \in AddTrainNumbers, st \in SeatTypes, d \in {Date1, Date2},
       n \in AccessCancelSeats :
        ~IsSafeIdentifier(tn) =>
            /\ add_train(tn, Express.name, Express.date, Express.start, Express.end)
                  => (last'.status = "ValidationError" /\ UNCHANGED <<trains, tables>>)
            /\ EnsureInventory(tn)
                  => (last'.status = "ValidationError" /\ UNCHANGED <<trains, tables>>)
            /\ AllocateNextAvailable(tn, st)
                  => (last'.status = "ValidationError" /\ UNCHANGED <<trains, tables>>)
            /\ get_seats_df(tn)
                  => (last'.status = "ValidationError" /\ UNCHANGED <<trains, tables>>)
            /\ get_seat_availability(tn)
                  => (last'.status = "ValidationError" /\ UNCHANGED <<trains, tables>>)
            /\ delete_train(tn, d)
                  => (last'.status \in kinds /\ UNCHANGED <<trains, tables>>)
            /\ book_ticket(tn, Alice.name, Alice.age, Alice.gender, st)
                  => (last'.status \in kinds /\ UNCHANGED <<trains, tables>>)
            /\ cancel_tickets(tn, n)
                  => (last'.status \in kinds /\ UNCHANGED <<trains, tables>>)

\* C13 (as the code has it): a train number outside [A-Za-z0-9_]+ is refused
\* at every entry point with the state unchanged, with ValidationError by
\* CreateTrain, EnsureInventory, AllocateNextAvailable, ListSeats and
\* AvailabilitySummary, and with NotFound by DeleteTrain and TrainNotFound by
\* Book and Cancel, which look the number up in the registry first; so in
\* every reachable state every registered train number and the train number
\* of every seat table match the pattern; CreateTrain accepts RJ12_EXP
C13_UnsafeNumberRefused ==
    /\ [](/\ \A tn \in DOMAIN trains : IsSafeIdentifier(tn)
          /\ \A k \in DOMAIN tables : SafeTableKey(k))
    /\ [][/\ UnsafeNumberOutcomes({"NotFound", "TrainNotFound"})
          /\ ( /\ RJ12_EXP \notin DOMAIN trains
               /\ add_train(RJ12_EXP, Express.name, Express.date,
                            Express.start, Express.end) )
             => (last'.status = "ok" /\ RJ12_EXP \in DOMAIN trains')
         ]_vars

\* C13 witness: RJ12_EXP is registered with its seat table and ListSeats has
\* just refused a train number
C13_Witness ==
    /\ last.op = "get_seats_df" /\ last.status = "ValidationError"
    /\ RJ12_EXP \in DOMAIN trains
    /\ TableKey(seat_table_name(RJ12_EXP)) \in DOMAIN tables

\* C13 as stated: a train number outside the pattern is refused with
\* ValidationError at every entry point, DeleteTrain, Book and Cancel included
C13_ValidationErrorEverywhere ==
    [][UnsafeNumberOutcomes({"ValidationError"})]_vars

\* The classification rule on a seat number and a category
ClassifiedByRule(n, category) ==
    LET m == n % 10
    IN  /\ (m \in {0, 4, 5, 9}) => category = "Window"
        /\ (m \in {2, 3, 6, 7}) => category = "Aisle"
        /\ (m \in {1, 8}) => category = "Middle"

\* The seat numbers of a decade whose stored category is the given one
DecadeSeats(rows, decade, category) ==
    {n \in (10 * decade + 1)..(10 * decade + 10) : rows[n].seat_type = category}

\* C14: every seat n of 1..50 is seeded as Window when n mod 10 is 0, 4, 5
\* or 9, as Aisle when it is 2, 3, 6 or 7 and as Middle when it is 1 or 8,
\* which makes 4 Window, 4 Aisle and 2 Middle seats in each decade
C14_ClassificationRule ==
    /\ \A n \in 1..TotalSeats : ClassifiedByRule(n, categorize_seat(n))
    /\ \A k \in DOMAIN tables :
          /\ \A n \in DOMAIN tables[k] : ClassifiedByRule(n, tables[k][n].seat_type)
          /\ \A decade \in 0..((TotalSeats \div 10) - 1) :
                /\ Cardinality(DecadeSeats(tables[k], decade, "Window")) = 4
                /\ Cardinality(DecadeSeats(tables[k], decade, "Aisle")) = 4
                /\ Cardinality(DecadeSeats(tables[k], decade, "Middle")) = 2

\* C14 witness: a seat table has just been seeded with its 50 seats
C14_Witness ==
    /\ last.op = "add_train" /\ last.status = "ok"
    /\ \E k \in DOMAIN tables :
          /\ DOMAIN tables[k] = 1..TotalSeats
          /\ tables[k][1].seat_type = "Middle"
          /\ tables[k][2].seat_type = "Aisle"
          /\ tables[k][TotalSeats].seat_type = "Window"

\* The seat row holds the passenger of the session's Book, and nothing of
\* another passenger
HoldsPassenger(row, call) ==
    /\ row.booked = 1
    /\ row.passenger_name = Some(call.passenger_name)
    /\ row.passenger_age = Some(call.passenger_age)
    /\ row.passenger_gender = Some(call.passenger_gender)

\* The Book of session c is over and has reported success
BookedOk(c) ==
    /\ sessions[c].op = "book_ticket"
    /\ sessions[c].pc = "done"
    /\ sessions[c].status = "ok"

\* C15: with two sessions running Book side by side, each as the sequence
\* "look the train up, allocate the lowest unbooked seat, update that seat",
\* nothing keeps the seat a session was allocated for it until its UPDATE.
\* A Book that reports success was allocated a seat of its category. When
\* both Books have reported success for the same seat of the same train, the
\* seat holds one passenger, the one of either session, and nothing of the
\* other. And when the seat holds the passenger of one session, which is at
\* or past its commit, and the other session, allocated the same seat, runs
\* its UPDATE, the seat holds the later writer's passenger afterwards: the
\* earlier booking is gone, no other seat is booked in its place, and the
\* earlier session reports success all the same.
C15_LaterWriterWins ==
    /\ [](\A c \in Callers :
            BookedOk(c)
                => /\ sessions[c].seat_number \in 1..TotalSeats
                   /\ categorize_seat(sessions[c].seat_number) = sessions[c].seat_type)
    /\ [](\A c \in Callers : \A d \in Callers \ {c} :
            (/\ BookedOk(c) /\ BookedOk(d)
             /\ sessions[c].train_number = sessions[d].train_number
             /\ sessions[c].seat_number = sessions[d].seat_number)
                => LET k == TableKey(seat_table_name(sessions[c].train_number))
                       n == sessions[c].seat_number
                   IN  /\ k \in DOMAIN tables
                       /\ n \in DOMAIN tables[k]
                       /\ \/ HoldsPassenger(tables[k][n], sessions[c])
                          \/ HoldsPassenger(tables[k][n], sessions[d]))
    /\ [][\A c \in Callers : \A d \in Callers \ {c} :
            LET k == TableKey(seat_table_name(sessions[c].train_number))
                n == sessions[c].seat_number
            IN  (/\ sessions[c].op = "book_ticket" /\ sessions[d].op = "book_ticket"
                 /\ sessions[d].train_number = sessions[c].train_number
                 /\ sessions[d].seat_number = n
                 /\ sessions[d].pc \in {"commit_update", "return", "done"}
                 /\ k \in DOMAIN tables
                 /\ n \in DOMAIN tables[k]
                 /\ HoldsPassenger(tables[k][n], sessions[d])
                 /\ sessions[c].pc = "update" /\ sessions[c].step = "step"
                 /\ sessions'[c].pc = "commit_update")
                => /\ k \in DOMAIN tables'
                   /\ n \in DOMAIN tables'[k]
                   /\ HoldsPassenger(tables'[k][n], sessions[c])
                   /\ ~HoldsPassenger(tables'[k][n], sessions[d])
                   /\ BookedSeats(tables'[k]) = BookedSeats(tables[k])
                   /\ sessions'[d] = sessions[d]
        ]_vars

\* C15 witness: both sessions asked for a Window seat on the same train, both
\* were allocated seat 4 and both reported success; the seat holds the
\* passenger of the second session only and no other seat is booked
C15_Witness ==
    /\ \A c \in Callers :
          /\ BookedOk(c)
          /\ sessions[c].train_number = T1
          /\ sessions[c].seat_type = "Window"
          /\ sessions[c].seat_number = 4
    /\ TableKey(seat_table_name(T1)) \in DOMAIN tables
    /\ LET rows == tables[TableKey(seat_table_name(T1))]
       IN  /\ BookedSeats(rows) = {4}
           /\ HoldsPassenger(rows[4], sessions["s2"])
           /\ ~HoldsPassenger(rows[4], sessions["s1"])
           /\ rows[4].passenger_name = Some(<<"B", "o">>)
           /\ rows[4].passenger_age = Some(Bob.age)

\* C16: a successful Book changes exactly one seat of the train, from
\* unbooked to booked with the passenger it was given (the name trimmed), and
\* leaves every other seat of the train, the inventory of every other
\* registered train and the registry unchanged; it never writes over a seat
\* that is already booked
C16_BookFrame ==
    [][(last'.op = "book_ticket" /\ last'.status = "ok") =>
       \A tn \in TrainNumbers, p \in Passengers, st \in SeatTypes :
        book_ticket(tn, p.name, p.age, p.gender, st) =>
            LET inv  == InventoryOf(tables, tn)
                inv2 == InventoryOf(tables', tn)
                s    == last'.seat
            IN  /\ DOMAIN inv2 = DOMAIN inv
                /\ s \in DOMAIN inv
                /\ Unbooked(inv[s])
                /\ inv2[s] = [seat_type |-> inv[s].seat_type, booked |-> 1,
                              passenger_name |-> Some(strip(p.name)),
                              passenger_age |-> Some(p.age),
                              passenger_gender |-> Some(p.gender)]
                /\ \A n \in DOMAIN inv \ {s} : inv2[n] = inv[n]
                /\ trains' = trains
                /\ \A other \in DOMAIN trains \ {tn} :
                      InventoryOf(tables', other) = InventoryOf(tables, other)
      ]_vars

\* C17: in every reachable state every registered train has a seat table,
\* and every seat table holds exactly the seats 1..50, each with the category
\* the classification gives its number (so no call adds, removes, renumbers
\* or recategorizes a seat)
C17_FiftySeatsPerTrain ==
    /\ \A tn \in DOMAIN trains : TableKey(seat_table_name(tn)) \in DOMAIN tables
    /\ \A k \in DOMAIN tables :
          /\ DOMAIN tables[k] = 1..TotalSeats
          /\ \A n \in DOMAIN tables[k] :
                tables[k][n].seat_type = categorize_seat(n)

\* C18: in every reachable state every seat table is the table of a train
\* number that is in the registry: no call, ListSeats, AvailabilitySummary
\* and AllocateNextAvailable on an unregistered number included, leaves a
\* seat table that no registered train owns
C18_NoOrphanInventory ==
    \A k \in DOMAIN tables :
        \E tn \in DOMAIN trains : TableKey(seat_table_name(tn)) = k

====
